---- MODULE Spec2Model ----
(***************************************************************************)
(* Model of three files of the medusa repository:                          *)
(*   packages/medusa/src/services/custom-shipping-option.ts                *)
(*       CustomShippingOptionService: retrieve, list, create               *)
(*   the SalesChannelService whose five methods are unimplemented          *)
(*   packages/medusa-react/src/hooks/admin/sales-channels/mutations.ts     *)
(*       the three sales-channel mutation hooks                            *)
(* The collaborators those files import but that are not part of them      *)
(* (buildQuery, the repository, atomicPhase_, buildOptions, the query key  *)
(* factory) are modelled from the written specification.                   *)
(***************************************************************************)
EXTENDS Integers, Sequences, FiniteSets, TLC

VARIABLES store, tx, last, scStore, scEvents, scLast, calls, pending, settled, stale

csoVars == <<store, tx, last>>
scVars == <<scStore, scEvents, scLast>>
hookVars == <<calls, pending, settled, stale>>
vars == <<store, tx, last, scStore, scEvents, scLast, calls, pending, settled, stale>>

(***************************************************************************)
(* Bounds of the model.                                                    *)
(***************************************************************************)
\* rows the store may hold under Spec
MaxRecords == 2
\* rows the store may hold under SpecBulk (more than the default take)
MaxBulk == 52
\* invocations of mutation hooks under SpecHooks
MaxMutations == 3

(***************************************************************************)
(* JavaScript's undefined, for a string-valued and a number-valued place.  *)
(***************************************************************************)
UndefStr == "undefined"
UndefNum == 0 - 1

Min(a, b) == IF a < b THEN a ELSE b
Max(a, b) == IF a > b THEN a ELSE b

(***************************************************************************)
(* Failures of the storage layer (constraint violation, connection error). *)
(***************************************************************************)
NoFault == "none"
StorageFaults == {"QueryFailedError", "ConnectionError"}
NOT_FOUND == "not_found"

(***************************************************************************)
(* CustomShippingOption rows and the inputs of the service.                *)
(***************************************************************************)
MetaGift == "{note:gift}"
EmptyObject == "{}"
\* an id a caller may put into data although CreateCustomShippingOptionInput has none
CallerId == 9

\* data: CreateCustomShippingOptionInput, possibly with a further property (id)
Datas ==
  { [cart_id |-> "cart_1", shipping_option_id |-> "so_1", price |-> 1000, id |-> UndefNum],
    [cart_id |-> "cart_2", shipping_option_id |-> "so_1", price |-> 0, id |-> UndefNum],
    [cart_id |-> "cart_1", shipping_option_id |-> "so_2", price |-> 0, id |-> CallerId] }

\* config of create: omitted, or an object whose metadata may be absent
OmittedCreateConfig == [given |-> FALSE, metadata |-> UndefStr]
CreateConfigs ==
  { OmittedCreateConfig,
    [given |-> TRUE, metadata |-> MetaGift],
    [given |-> TRUE, metadata |-> UndefStr] }

\* the calls of create the model makes
CreateInputs ==
  { [data |-> d, config |-> c] : d \in Datas, c \in CreateConfigs } \
  { [data |-> d, config |-> c] : d \in {x \in Datas : x.price = 0},
                                  c \in {y \in CreateConfigs : y.given} }

\* config of list: omitted, or an object whose skip and take may be absent
OmittedFindConfig == [given |-> FALSE, skip |-> UndefNum, take |-> UndefNum, relations |-> {}]
GivenFindConfig(skip, take) == [given |-> TRUE, skip |-> skip, take |-> take, relations |-> {}]
GivenFindConfigsOf(configs) == {c \in configs : c.given}
FindConfigs ==
  { OmittedFindConfig,
    GivenFindConfig(UndefNum, UndefNum),
    GivenFindConfig(1, UndefNum),
    GivenFindConfig(UndefNum, 1),
    GivenFindConfig(0, 2),
    GivenFindConfig(1, 1),
    GivenFindConfig(0, 0) }

\* Selector<CustomShippingOption>: a property that is undefined is no criterion
NoSelector ==
  [id |-> UndefNum, cart_id |-> UndefStr, shipping_option_id |-> UndefStr, price |-> UndefNum]
Selectors ==
  { NoSelector,
    [NoSelector EXCEPT !.cart_id = "cart_1"],
    [NoSelector EXCEPT !.cart_id = "cart_1", !.price = 0] }

RetrieveIds == 1 .. (MaxRecords + 1)

(***************************************************************************)
(* Query Builder and repository (storage layer).                           *)
(***************************************************************************)
\* utils buildQuery: the selector becomes where, skip and take are passed on
buildQuery(selector, config) ==
  [where |-> selector, skip |-> config.skip, take |-> config.take,
   relations |-> config.relations]

NoQuery == buildQuery(NoSelector, OmittedFindConfig)

\* a row satisfies where when it agrees with every defined property of it
Matches(row, where) ==
  /\ where.id = UndefNum \/ row.id = where.id
  /\ where.cart_id = UndefStr \/ row.cart_id = where.cart_id
  /\ where.shipping_option_id = UndefStr \/ row.shipping_option_id = where.shipping_option_id
  /\ where.price = UndefNum \/ row.price = where.price

Drop(seq, n) == SubSeq(seq, Min(n, Len(seq)) + 1, Len(seq))
Take(seq, n) == SubSeq(seq, 1, Min(n, Len(seq)))

\* repository find: the matching rows, in insertion order, after skip, up to take
Find(rows, query) ==
  LET matching == SelectSeq(rows, LAMBDA r : Matches(r, query.where))
      skipped == IF query.skip = UndefNum THEN matching ELSE Drop(matching, query.skip)
  IN IF query.take = UndefNum THEN skipped ELSE Take(skipped, query.take)

\* repository findOne: the first matching row, or none (the empty sequence)
FindOne(rows, query) ==
  Take(SelectSeq(rows, LAMBDA r : Matches(r, query.where)), 1)

MaxId(rows) ==
  IF rows = <<>> THEN 0
  ELSE CHOOSE m \in {rows[i].id : i \in DOMAIN rows} :
         \A i \in DOMAIN rows : rows[i].id <= m

\* repository save: the entity gets a generated id unless it already carries one
Save(entity, rows) ==
  [entity EXCEPT !.id = IF entity.id = UndefNum THEN MaxId(rows) + 1 ELSE entity.id]

(***************************************************************************)
(* Results of an operation as its caller sees them.                        *)
(***************************************************************************)
Returned(rows) == [ok |-> TRUE, rows |-> rows, error |-> NoFault]
Thrown(error) == [ok |-> FALSE, rows |-> <<>>, error |-> error]

Completed(op, args, query, fault, storageCalls, result) ==
  [op |-> op, args |-> args, query |-> query, fault |-> fault, calls |-> storageCalls,
   ok |-> result.ok, rows |-> result.rows, error |-> result.error]

NoOp == Completed("none", [id |-> UndefNum], NoQuery, NoFault, 0, Thrown(NoFault))

(***************************************************************************)
(* Transaction Wrapper (atomicPhase_): the unit of work writes into the    *)
(* transaction; commit makes its writes visible, rollback discards them.   *)
(***************************************************************************)
IdleTx ==
  [pc |-> "idle", data |-> CHOOSE d \in Datas : TRUE, config |-> OmittedCreateConfig,
   snapshot |-> <<>>, writes |-> <<>>, saved |-> <<>>, fault |-> NoFault, calls |-> 0]

\* a write made inside a transaction: invisible outside it until commit
TxWrite(committed, writes, row) ==
  [committed |-> committed, writes |-> Append(writes, row)]

\* a write through a repository: of the transaction's manager, or of the connection
RepositoryWrite(scope, committed, writes, row) ==
  IF scope = "transaction" THEN TxWrite(committed, writes, row)
  ELSE [committed |-> Append(committed, row), writes |-> writes]

\* commit: the transaction's writes are added to the committed rows
TxCommit(committed, writes) == committed \o writes

\* rollback: the committed rows are those from before the transaction
TxRollback(committed, writes) == committed

(***************************************************************************)
(* CustomShippingOptionService.retrieve                                    *)
(***************************************************************************)
\* the config parameter's default, {}
DefaultRetrieveConfig == [given |-> TRUE, skip |-> UndefNum, take |-> UndefNum, relations |-> {}]

\* retrieve as it would be with the id left out of the selector
RetrieveQueryNoId(id) == buildQuery(NoSelector, DefaultRetrieveConfig)

\* buildQuery({ id }, config)
RetrieveQuery(id) == buildQuery([NoSelector EXCEPT !.id = id], DefaultRetrieveConfig)

\* retrieve as it would be without the check of the row found
RetrieveOutcomeNoCheck(found) == Returned(found)

\* if (!customShippingOption) throw NOT_FOUND; return customShippingOption
RetrieveOutcome(found) ==
  IF found = <<>> THEN Thrown(NOT_FOUND) ELSE Returned(found)

\* retrieve as it would be if it caught the failure of findOne and went on without a row
RetrieveWorkCatches(rows, id, fault) ==
  IF fault # NoFault THEN RetrieveOutcome(<<>>)
  ELSE RetrieveOutcome(FindOne(rows, RetrieveQuery(id)))

\* the unit of work of retrieve: one findOne; a rejected findOne rejects retrieve
RetrieveWork(rows, id, fault) ==
  IF fault # NoFault THEN Thrown(fault)
  ELSE RetrieveOutcome(FindOne(rows, RetrieveQuery(id)))

\* retrieve as it would be if it consumed the row it finds
RetrieveStoreRemoves(rows, id) == SelectSeq(rows, LAMBDA r : r.id # id)

\* what retrieve leaves in the store
RetrieveStore(rows, id) == rows

Retrieve(id) ==
  \E fault \in StorageFaults \cup {NoFault} :
    /\ last' = Completed("retrieve", [id |-> id], RetrieveQuery(id), fault, 1,
                         RetrieveWork(store, id, fault))
    /\ store' = RetrieveStore(store, id)
    /\ UNCHANGED <<tx, scVars, hookVars>>

(***************************************************************************)
(* CustomShippingOptionService.list                                        *)
(***************************************************************************)
DefaultTake == 50

\* the default as it would be without a take
ListDefaultConfigNoTake == [given |-> TRUE, skip |-> 0, take |-> UndefNum, relations |-> {}]

\* the config parameter's default
ListDefaultConfig == [given |-> TRUE, skip |-> 0, take |-> DefaultTake, relations |-> {}]

\* a default parameter value replaces an omitted argument, and only that
ListConfig(config) == IF config.given THEN config ELSE ListDefaultConfig

\* list as it would be with the selector left out of the query
ListQueryNoSelector(selector, config) == buildQuery(NoSelector, ListConfig(config))

\* buildQuery(selector, config)
ListQuery(selector, config) == buildQuery(selector, ListConfig(config))

\* the unit of work of list: one find; a rejected find rejects list
ListWork(rows, selector, config, fault) ==
  IF fault # NoFault THEN Thrown(fault)
  ELSE Returned(Find(rows, ListQuery(selector, config)))

\* what list leaves in the store
ListStore(rows, selector, config) == rows

List(selector, config) ==
  \E fault \in StorageFaults \cup {NoFault} :
    /\ last' = Completed("list", [selector |-> selector, config |-> config],
                         ListQuery(selector, config), fault, 1,
                         ListWork(store, selector, config, fault))
    /\ store' = ListStore(store, selector, config)
    /\ UNCHANGED <<tx, scVars, hookVars>>

(***************************************************************************)
(* CustomShippingOptionService.create                                      *)
(***************************************************************************)
\* config = { metadata: {} } when omitted; const { metadata } = config
CreateMetadata(config) == IF config.given THEN config.metadata ELSE EmptyObject

\* create as it would be if it passed data on whole: repo.create({ ...data, metadata })
CreateEntitySpread(data, config) ==
  [id |-> data.id, cart_id |-> data.cart_id, shipping_option_id |-> data.shipping_option_id,
   price |-> data.price, metadata |-> CreateMetadata(config)]

\* repo.create({ cart_id, shipping_option_id, price, metadata }): no id is passed
CreateEntity(data, config) ==
  [id |-> UndefNum, cart_id |-> data.cart_id, shipping_option_id |-> data.shipping_option_id,
   price |-> data.price, metadata |-> CreateMetadata(config)]

\* create as it would be with the repository of this.manager_, outside the transaction
CreateRepositoryOfConnection == "connection"

\* manager.getCustomRepository(...): the repository of the manager atomicPhase_ passes
CreateRepository == "transaction"

\* const result = await repo.save(entity); return result
CreateResult(entity, saved) == Returned(<<saved>>)

\* a storage failure inside the unit of work rejects create with that failure
CreateFailure(fault) == Thrown(fault)

\* create is called: the transaction is opened
CreateBegin(data, config, cap) ==
  /\ tx.pc = "idle"
  /\ Len(store) < cap
  /\ tx' = [IdleTx EXCEPT !.pc = "open", !.data = data, !.config = config,
                          !.snapshot = store]
  /\ UNCHANGED <<store, last, scVars, hookVars>>

\* repo.create and repo.save through the repository of the transaction's manager
CreateSave ==
  /\ tx.pc = "open"
  /\ \E fault \in StorageFaults \cup {NoFault} :
       IF fault = NoFault
       THEN LET row == Save(CreateEntity(tx.data, tx.config), store \o tx.writes)
                w == RepositoryWrite(CreateRepository, store, tx.writes, row)
            IN /\ store' = w.committed
               /\ tx' = [tx EXCEPT !.pc = "saved", !.writes = w.writes, !.saved = <<row>>,
                                   !.calls = @ + 1]
       ELSE /\ store' = store
            /\ tx' = [tx EXCEPT !.pc = "failed", !.fault = fault, !.calls = @ + 1]
  /\ UNCHANGED <<last, scVars, hookVars>>

\* the unit of work returned: the transaction commits, or the commit fails
CreateCommit ==
  /\ tx.pc = "saved"
  /\ \E fault \in StorageFaults \cup {NoFault} :
       IF fault = NoFault
       THEN /\ store' = TxCommit(store, tx.writes)
            /\ last' = Completed("create", [data |-> tx.data, config |-> tx.config], NoQuery,
                                 NoFault, tx.calls,
                                 CreateResult(CreateEntity(tx.data, tx.config), tx.saved[1]))
            /\ tx' = IdleTx
       ELSE /\ tx' = [tx EXCEPT !.pc = "failed", !.fault = fault]
            /\ UNCHANGED <<store, last>>
  /\ UNCHANGED <<scVars, hookVars>>

\* the unit of work threw: the transaction rolls back and create rejects
CreateRollback ==
  /\ tx.pc = "failed"
  /\ store' = TxRollback(store, tx.writes)
  /\ last' = Completed("create", [data |-> tx.data, config |-> tx.config], NoQuery,
                       tx.fault, tx.calls, CreateFailure(tx.fault))
  /\ tx' = IdleTx
  /\ UNCHANGED <<scVars, hookVars>>

(***************************************************************************)
(* SalesChannelService: every method throws "Method not implemented."      *)
(***************************************************************************)
NotImplemented == "Method not implemented."

Channels ==
  { [id |-> "sc_1", name |-> "web"], [id |-> "sc_2", name |-> "app"],
    [id |-> "sc_3", name |-> "pos"] }
ChannelIds == {"sc_1", "sc_2", "sc_3", "sc_9"}
ChannelInputs == { [name |-> "web"], [name |-> "b2b"] }
ScSelectors == { [name |-> UndefStr], [name |-> "web"] }
\* config of listAndCount: omitted (the default is used) or given
ScConfigs == { [given |-> FALSE, skip |-> 0, take |-> 10], [given |-> TRUE, skip |-> 1, take |-> 1] }

ScState(channels, events) == [channels |-> channels, events |-> events]

ScCompleted(op, args, result) ==
  [op |-> op, args |-> args, ok |-> result.ok, rows |-> result.rows, error |-> result.error]

\* retrieve: throw new Error("Method not implemented.")
ScRetrieveOutcome(id) == Thrown(NotImplemented)
ScRetrieveEffect(channels, events, id) == ScState(channels, events)

\* listAndCount: throw new Error("Method not implemented.")
ScListAndCountOutcome(selector, config) == Thrown(NotImplemented)
ScListAndCountEffect(channels, events, selector, config) == ScState(channels, events)

\* create: throw new Error("Method not implemented.")
ScCreateOutcome(data) == Thrown(NotImplemented)
ScCreateEffect(channels, events, data) == ScState(channels, events)

\* update: throw new Error("Method not implemented.")
ScUpdateOutcome(id, data) == Thrown(NotImplemented)
ScUpdateEffect(channels, events, id, data) == ScState(channels, events)

\* delete as it would be if it were implemented: the channel goes, an event is emitted
ScDeleteEffectRemoves(channels, events, id) ==
  ScState({c \in channels : c.id # id}, Append(events, "sales_channel.deleted"))

\* delete: throw new Error("Method not implemented.")
ScDeleteOutcome(id) == Thrown(NotImplemented)
ScDeleteEffect(channels, events, id) == ScState(channels, events)

ScStep(op, args, result, after) ==
  /\ scLast' = ScCompleted(op, args, result)
  /\ scStore' = after.channels
  /\ scEvents' = after.events
  /\ UNCHANGED <<csoVars, hookVars>>

ScRetrieve(id) ==
  ScStep("retrieve", [id |-> id], ScRetrieveOutcome(id),
         ScRetrieveEffect(scStore, scEvents, id))

ScListAndCount(selector, config) ==
  ScStep("listAndCount", [selector |-> selector, config |-> config],
         ScListAndCountOutcome(selector, config),
         ScListAndCountEffect(scStore, scEvents, selector, config))

ScCreate(data) ==
  ScStep("create", [data |-> data], ScCreateOutcome(data),
         ScCreateEffect(scStore, scEvents, data))

ScUpdate(id, data) ==
  ScStep("update", [id |-> id, data |-> data], ScUpdateOutcome(id, data),
         ScUpdateEffect(scStore, scEvents, id, data))

ScDelete(id) ==
  ScStep("delete", [id |-> id], ScDeleteOutcome(id),
         ScDeleteEffect(scStore, scEvents, id))

ScNoOp == ScCompleted("none", [id |-> UndefStr], Thrown(NoFault))

(***************************************************************************)
(* Sales-channel mutation hooks (medusa-react).                            *)
(***************************************************************************)
\* adminSalesChannelsKeys, the query keys of the sales-channel queries
KeyAll == <<"admin_sales_channels">>
KeyLists == KeyAll \o <<"list">>
KeyList == KeyLists \o <<"query:undefined">>
KeyDetail(id) == KeyAll \o <<"detail", id>>

HookIds == {"sc_1", "sc_2"}
Payloads == {"web"}
NoId == "-"

ClientCall(method, id, payload) == [method |-> method, id |-> id, payload |-> payload]

\* useAdminCreateSalesChannel: client.admin.salesChannels.create(payload)
CreateMutationFn(payload) == <<ClientCall("create", NoId, payload)>>
\* buildOptions(queryClient, [adminSalesChannelsKeys.list()], options)
CreateKeys == {KeyList}

\* useAdminUpdateSalesChannel: client.admin.salesChannels.update(id, payload)
UpdateMutationFn(id, payload) == <<ClientCall("update", id, payload)>>
\* update as it would be if it invalidated the lists only
UpdateKeysListsOnly(id) == {KeyLists}

\* buildOptions(queryClient, [lists(), detail(id)], options)
UpdateKeys(id) == {KeyLists, KeyDetail(id)}

\* useAdminDeleteSalesChannel: client.admin.salesChannels.delete(id)
DeleteMutationFn(id) == <<ClientCall("delete", id, NoId)>>
\* buildOptions(queryClient, [lists(), detail(id)], options)
DeleteKeys(id) == {KeyLists, KeyDetail(id)}

\* buildOptions: onSuccess invalidates every key it was given
OnSuccess(staleKeys, keys) == staleKeys \cup keys
\* buildOptions adds nothing for a failed call
OnError(staleKeys, keys) == staleKeys

Invocations == Cardinality(pending) + Cardinality(settled)

\* useMutation's mutate: the mutation function runs once, its promise is awaited
Mutate(hook, id, issued, keys) ==
  /\ Invocations < MaxMutations
  /\ LET n == Invocations + 1
     IN /\ calls' = calls \o [i \in DOMAIN issued |->
                               [n |-> n, method |-> issued[i].method, id |-> issued[i].id,
                                payload |-> issued[i].payload]]
        /\ pending' = pending \cup {[n |-> n, hook |-> hook, id |-> id, keys |-> keys]}
  /\ UNCHANGED <<settled, stale, csoVars, scVars>>

MutateCreate(payload) == Mutate("create", NoId, CreateMutationFn(payload), CreateKeys)
MutateUpdate(id, payload) == Mutate("update", id, UpdateMutationFn(id, payload), UpdateKeys(id))
MutateDelete(id) == Mutate("delete", id, DeleteMutationFn(id), DeleteKeys(id))

Settled(m, outcome) == [n |-> m.n, hook |-> m.hook, id |-> m.id, outcome |-> outcome]

\* the HTTP call of a mutation in flight succeeds
MutationSucceeds(m) ==
  /\ m \in pending
  /\ pending' = pending \ {m}
  /\ settled' = settled \cup {Settled(m, "success")}
  /\ stale' = OnSuccess(stale, m.keys)
  /\ UNCHANGED <<calls, csoVars, scVars>>

\* the HTTP call of a mutation in flight fails
MutationFails(m) ==
  /\ m \in pending
  /\ pending' = pending \ {m}
  /\ settled' = settled \cup {Settled(m, "error")}
  /\ stale' = OnError(stale, m.keys)
  /\ UNCHANGED <<calls, csoVars, scVars>>

(***************************************************************************)
(* Specifications.                                                         *)
(***************************************************************************)
InitCso == store = <<>> /\ tx = IdleTx /\ last = NoOp
InitSc == scStore = {} /\ scEvents = <<>> /\ scLast = ScNoOp
InitHooks == calls = <<>> /\ pending = {} /\ settled = {} /\ stale = {}

\* CustomShippingOptionService over an initially empty table
Init == InitCso /\ InitSc /\ InitHooks

Next ==
  \/ \E id \in RetrieveIds : Retrieve(id)
  \/ \E selector \in Selectors, config \in FindConfigs : List(selector, config)
  \/ \E input \in CreateInputs : CreateBegin(input.data, input.config, MaxRecords)
  \/ CreateSave
  \/ CreateCommit
  \/ CreateRollback

Spec == Init /\ [][Next]_vars

\* CustomShippingOptionService over a table that outgrows the default take
BulkData == CHOOSE d \in Datas : d.cart_id = "cart_1" /\ d.price = 0
BulkConfigs ==
  { OmittedFindConfig,
    [OmittedFindConfig EXCEPT !.given = TRUE],
    [OmittedFindConfig EXCEPT !.given = TRUE, !.skip = 1],
    [OmittedFindConfig EXCEPT !.given = TRUE, !.take = DefaultTake + 1] }

NextBulk ==
  \/ \E config \in BulkConfigs : List(NoSelector, config)
  \/ CreateBegin(BulkData, OmittedCreateConfig, MaxBulk)
  \/ CreateSave
  \/ CreateCommit
  \/ CreateRollback

SpecBulk == Init /\ [][NextBulk]_vars

\* SalesChannelService over any table of sales channels
InitStubs == InitCso /\ InitHooks /\ scStore \in SUBSET Channels /\ scEvents = <<>> /\ scLast = ScNoOp

NextStubs ==
  \/ \E id \in ChannelIds : ScRetrieve(id)
  \/ \E selector \in ScSelectors, config \in ScConfigs : ScListAndCount(selector, config)
  \/ \E data \in ChannelInputs : ScCreate(data)
  \/ \E id \in ChannelIds, data \in ChannelInputs : ScUpdate(id, data)
  \/ \E id \in ChannelIds : ScDelete(id)

SpecStubs == InitStubs /\ [][NextStubs]_vars

\* the mutation hooks
NextHooks ==
  \/ \E payload \in Payloads : MutateCreate(payload)
  \/ \E id \in HookIds, payload \in Payloads : MutateUpdate(id, payload)
  \/ \E id \in HookIds : MutateDelete(id)
  \/ \E m \in pending : MutationSucceeds(m)
  \/ \E m \in pending : MutationFails(m)

SpecHooks == Init /\ [][NextHooks]_vars

(***************************************************************************)
(* Properties.                                                             *)
(***************************************************************************)
IdsOf(rows) == {rows[i].id : i \in DOMAIN rows}
RowsOf(rows) == {rows[i] : i \in DOMAIN rows}
MatchingRows(rows, selector) == SelectSeq(rows, LAMBDA r : Matches(r, selector))

\* The store changes only when a create commits, and that step completes the create:
\* while the last completed operation is a retrieve or a list, the stored rows are
\* those that operation read.

\* C1: a retrieve(id) that the storage layer answers returns the stored row whose id
\* is id when there is one and fails with NOT_FOUND when there is none; a retrieve
\* that succeeds never returns a row of another id nor an empty result.
C1_RetrieveByIdOrNotFound ==
  last.op = "retrieve" =>
    /\ last.ok => /\ Len(last.rows) = 1
                  /\ last.rows[1].id = last.args.id
                  /\ last.rows[1] \in RowsOf(store)
    /\ last.fault = NoFault =>
         IF last.args.id \in IdsOf(store)
         THEN last.ok
         ELSE ~last.ok /\ last.error = NOT_FOUND

C1_Witness ==
  /\ last.op = "retrieve" /\ last.ok
  /\ Len(store) = 2
  /\ last.args.id = 2
  /\ last.rows = <<store[2]>>

\* C2: after a successful create (config omitted, or given with metadata), a retrieve of
\* the returned row's id that the storage layer answers, with no write in between,
\* returns a row equal to the returned one in every field.
C2_CreateThenRetrieve ==
  [][( /\ last.op = "create" /\ last.ok
       /\ last.args.config.given => last.args.config.metadata # UndefStr
       /\ last'.op = "retrieve"
       /\ last'.args.id = last.rows[1].id
       /\ last'.fault = NoFault )
     => /\ last'.ok
        /\ last'.rows = last.rows
        /\ last'.rows[1].cart_id = last.args.data.cart_id
        /\ last'.rows[1].shipping_option_id = last.args.data.shipping_option_id
        /\ last'.rows[1].price = last.args.data.price
        /\ last'.rows[1].metadata = IF last.args.config.given
                                    THEN last.args.config.metadata ELSE EmptyObject]_vars

C2_Witness ==
  /\ last.op = "retrieve" /\ last.ok
  /\ last.args.id = 2
  /\ last.rows[1].metadata = MetaGift
  /\ Len(store) = 2 /\ last.rows[1] = store[2]
  /\ tx.pc = "idle"

\* C3: a list(selector, config) that the storage layer answers returns only rows that
\* match the selector, at most take of them, and not the first skip matching rows: it
\* returns the matching rows from the (skip+1)-th on, in order; with skip 0 and take at
\* least the number of matching rows it returns them all.
C3_ListSkipTake ==
  (last.op = "list" /\ last.args.config.given /\ last.fault = NoFault) =>
    LET selector == last.args.selector
        config == last.args.config
        matching == MatchingRows(store, selector)
        skip == IF config.skip = UndefNum THEN 0 ELSE config.skip
        rows == last.rows
    IN /\ last.ok
       /\ \A i \in DOMAIN rows : Matches(rows[i], selector)
       /\ config.take # UndefNum => Len(rows) <= config.take
       /\ Len(rows) <= Max(0, Len(matching) - skip)
       /\ \A i \in DOMAIN rows : rows[i] = matching[i + skip]
       /\ (skip = 0 /\ config.take # UndefNum /\ config.take >= Len(matching))
            => rows = matching
       /\ (config.take # UndefNum /\ config.take <= Len(matching) - skip)
            => Len(rows) = config.take

C3_Witness ==
  /\ last.op = "list" /\ last.ok
  /\ last.args.selector.cart_id = "cart_1"
  /\ last.args.config.given /\ last.args.config.skip = 1 /\ last.args.config.take = 1
  /\ Len(last.rows) = 1 /\ last.rows[1].id = 2
  /\ Len(store) = 2

\* C10: a step that completes a retrieve or a list, whether it succeeds or fails,
\* leaves the stored rows and the transaction in progress as they were.
C10_ReadsAreReadOnly ==
  [][(last' # last /\ last'.op \in {"retrieve", "list"})
       => store' = store /\ tx' = tx]_vars

C10_Witness ==
  /\ last.op = "retrieve" /\ ~last.ok /\ last.error = NOT_FOUND
  /\ last.args.id = 2
  /\ Len(store) = 1
  /\ tx.pc = "saved"

\* C4 as stated: whenever the caller supplies no take, config omitted or config given
\* without take, the query is issued with take = 50 and at most 50 rows are returned.
C4_AsStated ==
  (last.op = "list" /\ last.args.config.take = UndefNum) =>
    /\ last.query.take = DefaultTake
    /\ Len(last.rows) <= DefaultTake

\* C4 amended: when config is omitted the query is issued with skip 0 and take = 50 and
\* at most 50 rows are returned; when a config object without take is given the query
\* carries no take and every matching row after the skipped ones is returned.
C4_DefaultTakeWhenOmitted ==
  last.op = "list" =>
    LET config == last.args.config
        matching == MatchingRows(store, last.args.selector)
        skip == IF config.skip = UndefNum THEN 0 ELSE config.skip
    IN /\ ~config.given =>
            /\ last.query.take = DefaultTake /\ last.query.skip = 0
            /\ Len(last.rows) <= DefaultTake
            /\ last.fault = NoFault => last.rows = Take(matching, DefaultTake)
       /\ (config.given /\ config.take = UndefNum) =>
            /\ last.query.take = UndefNum
            /\ last.fault = NoFault => last.rows = Drop(matching, skip)

C4_Witness ==
  /\ last.op = "list" /\ last.ok
  /\ ~last.args.config.given
  /\ Len(store) > DefaultTake
  /\ Len(last.rows) = DefaultTake

\* C5: while a create is in progress the stored rows are those from before it began; a
\* create that throws, at save or at commit, leaves exactly those rows; a create
\* that commits adds its writes to them.
C5_CreateIsAtomic ==
  [][/\ tx'.pc # "idle" => store' = tx'.snapshot
     /\ (tx.pc = "failed" /\ tx'.pc = "idle") =>
          /\ ~last'.ok
          /\ store' = tx.snapshot
     /\ (tx.pc = "saved" /\ tx'.pc = "idle") =>
          /\ last'.ok
          /\ store' = tx.snapshot \o last'.rows]_vars

C5_Witness ==
  /\ last.op = "create" /\ ~last.ok /\ last.fault = "QueryFailedError"
  /\ tx.pc = "idle"
  /\ Len(store) = 1

\* C8: a failure of the storage layer during retrieve, list or create reaches the
\* caller as that same failure, after one storage call; the only other error is
\* NOT_FOUND, raised by a retrieve whose lookup was answered and found no row.
C8_StorageFailuresPropagate ==
  last.op \in {"retrieve", "list", "create"} =>
    /\ last.calls = 1
    /\ last.fault # NoFault => ~last.ok /\ last.error = last.fault
    /\ last.fault = NoFault =>
         \/ last.ok
         \/ /\ last.op = "retrieve"
            /\ last.error = NOT_FOUND
            /\ last.args.id \notin IdsOf(store)

C8_Witness ==
  /\ last.op = "retrieve" /\ ~last.ok
  /\ last.fault = "ConnectionError" /\ last.error = "ConnectionError"
  /\ last.args.id = 1
  /\ Len(store) = 1

\* C9: a create that succeeds appends exactly one row to the stored rows and changes no
\* other; the row's cart_id, shipping_option_id and price are those of data, its
\* metadata is that of config ({} when config is omitted), and its id is generated:
\* an id that data carries is not persisted.
C9_CreateAddsOneRow ==
  [][(tx.pc = "saved" /\ tx'.pc = "idle")
     => /\ last'.op = "create" /\ last'.ok
        /\ Len(last'.rows) = 1
        /\ store' = Append(store, last'.rows[1])
        /\ LET row == last'.rows[1]
           IN /\ row.cart_id = tx.data.cart_id
              /\ row.shipping_option_id = tx.data.shipping_option_id
              /\ row.price = tx.data.price
              /\ row.metadata = IF tx.config.given THEN tx.config.metadata ELSE EmptyObject
              /\ row.id \notin IdsOf(store)
              /\ row.id # tx.data.id
              /\ row.id # UndefNum]_vars

C9_Witness ==
  /\ last.op = "create" /\ last.ok
  /\ last.args.data.id = CallerId
  /\ Len(store) = 2
  /\ store[2] = last.rows[1]
  /\ store[2].id = 2

\* the keys each hook is to invalidate, written out
KeysToInvalidate(hook, id) ==
  IF hook = "create" THEN { <<"admin_sales_channels", "list", "query:undefined">> }
  ELSE { <<"admin_sales_channels", "list">>, <<"admin_sales_channels", "detail", id>> }

\* C6: every invocation of a mutation hook issues exactly one call through the client,
\* that of its own method and id; invoking a hook and a call that fails invalidate no
\* key; a call that succeeds invalidates the list key (create) or the lists key and
\* the detail key of the hook's id (update, delete), and nothing else.
C6_HooksInvalidateOnSuccess ==
  [][/\ \A n \in 1 .. Invocations' :
          Cardinality({i \in DOMAIN calls' : calls'[i].n = n}) = 1
     /\ \A m \in pending' \ pending :
          /\ stale' = stale
          /\ \E i \in DOMAIN calls' :
               /\ calls'[i].n = m.n
               /\ calls'[i].method = m.hook
               /\ m.hook \in {"update", "delete"} => calls'[i].id = m.id
               /\ m.hook = "create" => calls'[i].id = NoId
     /\ \A m \in pending \ pending' :
          /\ calls' = calls
          /\ Settled(m, "error") \in settled' => stale' = stale
          /\ Settled(m, "success") \in settled' =>
               stale' = stale \cup KeysToInvalidate(m.hook, m.id)]_vars

C6_Witness ==
  /\ \E m \in settled : m.hook = "update" /\ m.id = "sc_2" /\ m.outcome = "success"
  /\ \E m \in settled : m.hook = "delete" /\ m.id = "sc_1" /\ m.outcome = "error"
  /\ \E m \in pending : m.hook = "create"
  /\ stale = { <<"admin_sales_channels", "list">>, <<"admin_sales_channels", "detail", "sc_2">> }
  /\ Len(calls) = 3

\* C7: every call of a SalesChannelService method fails with "Method not implemented.",
\* and leaves the stored sales channels and the emitted events as they were.
C7_SalesChannelServiceAlwaysFails ==
  [][/\ scStore' = scStore
     /\ scEvents' = scEvents
     /\ scLast'.op \in {"retrieve", "listAndCount", "create", "update", "delete"}
     /\ ~scLast'.ok
     /\ scLast'.error = NotImplemented]_vars

C7_Witness ==
  /\ scLast.op = "delete" /\ ~scLast.ok
  /\ scLast.args.id = "sc_1"
  /\ \E c \in scStore : c.id = "sc_1"
  /\ scEvents = <<>>

====
